---- MODULE Spec2Model ----
(***************************************************************************)
(* A model of simpleldap (src/simpleldap/__init__.py): the LDAPItem result *)
(* wrapper and the Connection class, with the python-ldap transport as the *)
(* environment.                                                            *)
(*                                                                         *)
(* Four specifications share the variables:                                *)
(*   Spec       several connections of one process: construction, search,  *)
(*              get and close;                                             *)
(*   InitSpec   construction alone, over every kind of argument;           *)
(*   ScopeSpec  a connection in and out of a with-statement                *)
(*              (__enter__/__exit__), every answer to a search;            *)
(*   ItemSpec   LDAPItem as a data structure: an item is built from a raw  *)
(*              (dn, attributes) tuple and queried with first and          *)
(*              value_contains.                                            *)
(*                                                                         *)
(* Every call records in `trace` the calls it made into python-ldap, in    *)
(* order, and in `ret` what it was called with and how it ended.           *)
(***************************************************************************)
EXTENDS Integers, Sequences, FiniteSets, TLC

VARIABLES
    ldap_options,   \* python-ldap's process-wide options (ldap.set_option)
    handles,        \* every LDAPObject ldap.initialize has returned
    sessions,       \* the Connection objects the caller holds (handle ids)
    scope,          \* the with-statement in progress, if any
    trace,          \* the calls into python-ldap made by the last call
    ret,            \* the last call: its arguments and its outcome
    result,         \* ItemSpec: the raw (dn, attributes) tuple
    item            \* ItemSpec: the LDAPItem built from it

vars == <<ldap_options, handles, sessions, scope, trace, ret, result, item>>

-----------------------------------------------------------------------------
(* Bounds.                                                                 *)

\* The longest value list of an attribute in ItemSpec.
MaxValues == 2
\* The most raw tuples the transport returns from one search.
MaxResults == 2
\* The most LDAPObjects opened in one behaviour of Spec.
MaxConnections == 2
\* The most LDAPObjects opened in one behaviour of InitSpec and ScopeSpec.
MaxSessions == 1

-----------------------------------------------------------------------------
(* Python values.  A value carries its type, so that truth testing         *)
(* (`not x`), identity with None and equality with a literal are what      *)
(* Python computes.                                                        *)

PyNone == [type |-> "NoneType"]
PyInt(n) == [type |-> "int", v |-> n]
PyStr(s) == [type |-> "str", v |-> s]
PyUnicode(s) == [type |-> "unicode", v |-> s]
PyBool(b) == [type |-> "bool", v |-> b]
PyDict(d) == [type |-> "dict", v |-> d]

\* bool(x)
Truthy(x) ==
    CASE x.type = "NoneType" -> FALSE
      [] x.type = "int" -> x.v # 0
      [] x.type = "bool" -> x.v
      [] x.type = "str" -> x.v # ""
      [] x.type = "unicode" -> x.v # ""
      [] x.type = "dict" -> DOMAIN x.v # {}

\* x == 'literal'
EqStr(x, s) == x.type \in {"str", "unicode"} /\ x.v = s

\* How a call ends: it returns a value or raises an exception.
Return(v) == [kind |-> "return", value |-> v]
Raise(e) == [kind |-> "raise", exc |-> e]

-----------------------------------------------------------------------------
(* Strings that are looked into (attribute names, attribute values) are    *)
(* sequences of characters.                                                *)

LowerChar(c) ==
    CASE c = "A" -> "a"
      [] c = "B" -> "b"
      [] c = "C" -> "c"
      [] c = "M" -> "m"
      [] c = "N" -> "n"
      [] OTHER -> c

\* str.lower()
lower(s) == [i \in DOMAIN s |-> LowerChar(s[i])]

\* `value in item` for two strings: value occurs in item as a substring.
StrIn(value, itm) ==
    \E start \in 0..(Len(itm) - Len(value)) :
        SubSeq(itm, start + 1, start + Len(value)) = value

-----------------------------------------------------------------------------
(* cidict: the case-insensitive dictionary LDAPItem extends.  The store    *)
(* maps the lower-cased key to the value.                                  *)

cidict_new == <<>>

cidict_setitem(d, key, value) ==
    [k \in DOMAIN d \cup {lower(key)} |->
        IF k = lower(key) THEN value ELSE d[k]]

cidict_getitem(d, key) ==
    IF lower(key) \in DOMAIN d THEN Return(d[lower(key)]) ELSE Raise("KeyError")

-----------------------------------------------------------------------------
(* LDAPItem.                                                               *)

\* The orders in which dict.iteritems() may enumerate the keys of a dict.
IterOrders(d) ==
    {o \in [1..Cardinality(DOMAIN d) -> DOMAIN d] :
        \A i, j \in DOMAIN o : i # j => o[i] # o[j]}

RECURSIVE SetAll(_, _, _)
\* for attribute, values in self.attributes.iteritems(): self[attribute] = values
SetAll(d, attributes, order) ==
    IF order = <<>> THEN d
    ELSE SetAll(cidict_setitem(d, Head(order), attributes[Head(order)]),
                attributes, Tail(order))

\* LDAPItem.__init__(result), the dict enumerated in `order`.
LDAPItem(res, order) ==
    [dn |-> res[1], attributes |-> res[2],
     data |-> SetAll(cidict_new, res[2], order)]

\* A plausible slip: the last value instead of the first.
first_last(self, attribute) ==
    LET got == cidict_getitem(self.data, attribute) IN
    IF got.kind = "raise" THEN got
    ELSE IF got.value = <<>> THEN Raise("IndexError")
    ELSE Return(got.value[Len(got.value)])

\* LDAPItem.first: self[attribute][0]
first(self, attribute) ==
    LET got == cidict_getitem(self.data, attribute) IN
    IF got.kind = "raise" THEN got
    ELSE IF got.value = <<>> THEN Raise("IndexError")
    ELSE Return(got.value[1])

\* A plausible slip: only the first value is looked at.
value_contains_head(self, value, attribute) ==
    LET got == cidict_getitem(self.data, attribute) IN
    IF got.kind = "raise" THEN got
    ELSE Return(got.value # <<>> /\ StrIn(value, got.value[1]))

\* LDAPItem.value_contains
value_contains(self, value, attribute) ==
    LET got == cidict_getitem(self.data, attribute) IN
    IF got.kind = "raise" THEN got
    ELSE Return(\E i \in DOMAIN got.value : StrIn(value, got.value[i]))

-----------------------------------------------------------------------------
(* The inputs of ItemSpec.                                                 *)

cn == <<"c", "n">>
CN == <<"C", "N">>
Cn == <<"C", "n">>
mail == <<"m">>
MAIL == <<"M">>
sn == <<"s", "n">>

\* The attribute names a raw tuple may carry: two differ only in case.
AttributeNames == {cn, CN, mail}
\* The names looked up.
LookupNames == {cn, CN, Cn, mail, MAIL, sn}
\* The attribute values.
AttributeValues == {<<"a", "b">>, <<"b">>}
\* The strings searched for.
Needles == {<<>>, <<"a">>, <<"b">>, <<"b", "a">>}

RECURSIVE SeqsUpTo(_, _)
SeqsUpTo(S, n) ==
    IF n = 0 THEN {<<>>}
    ELSE LET shorter == SeqsUpTo(S, n - 1) IN
         shorter \cup {Append(s, x) : s \in shorter, x \in S}

ValueLists == SeqsUpTo(AttributeValues, MaxValues)

\* The attribute dicts: every subset of the names, every value list for each.
AttributeDicts ==
    UNION {[K -> ValueLists] : K \in SUBSET AttributeNames}

NoItem == [dn |-> "", attributes |-> <<>>, data |-> <<>>, built |-> FALSE]
NoResult == <<"", <<>>>>
NoCall == [op |-> "none"]
NoScope == [phase |-> "none"]

Built(it) == "built" \notin DOMAIN it

-----------------------------------------------------------------------------
(* Connection.__init__.                                                    *)

DefaultPort == 389
DefaultSSLPort == 636
DebugLevelOn == 255
DebugLevelOff == 0

\* A plausible slip: an unknown protocol falls through to plain ldap.
select_protocol_lenient(encryption, port) ==
    IF EqStr(encryption, "ssl")
    THEN Return([protocol |-> "ldaps",
                 port |-> IF ~Truthy(port) THEN PyInt(DefaultSSLPort) ELSE port])
    ELSE Return([protocol |-> "ldap",
                 port |-> IF ~Truthy(port) THEN PyInt(DefaultPort) ELSE port])

\* A plausible slip: one default port for every protocol.
select_protocol_one_default(encryption, port) ==
    IF ~Truthy(encryption) \/ EqStr(encryption, "tls")
    THEN Return([protocol |-> "ldap",
                 port |-> IF ~Truthy(port) THEN PyInt(DefaultPort) ELSE port])
    ELSE IF EqStr(encryption, "ssl")
    THEN Return([protocol |-> "ldaps",
                 port |-> IF ~Truthy(port) THEN PyInt(DefaultPort) ELSE port])
    ELSE Raise("InvalidEncryptionProtocol")

\* The protocol and port chosen from the encryption mode, or the refusal.
select_protocol(encryption, port) ==
    IF ~Truthy(encryption) \/ EqStr(encryption, "tls")
    THEN Return([protocol |-> "ldap",
                 port |-> IF ~Truthy(port) THEN PyInt(DefaultPort) ELSE port])
    ELSE IF EqStr(encryption, "ssl")
    THEN Return([protocol |-> "ldaps",
                 port |-> IF ~Truthy(port) THEN PyInt(DefaultSSLPort) ELSE port])
    ELSE Raise("InvalidEncryptionProtocol")

\* A plausible slip: the debug level is raised but never reset.
global_writes_no_reset(require_cert, debug) ==
    (IF require_cert.type # "NoneType"
     THEN <<[call |-> "ldap.set_option", name |-> "OPT_X_TLS_REQUIRE_CERT",
             value |-> require_cert]>>
     ELSE <<>>)
    \o (IF Truthy(debug)
        THEN <<[call |-> "ldap.set_option", name |-> "OPT_DEBUG_LEVEL",
                value |-> PyInt(DebugLevelOn)]>>
        ELSE <<>>)

\* The process-wide options written, in order.
global_writes(require_cert, debug) ==
    (IF require_cert.type # "NoneType"
     THEN <<[call |-> "ldap.set_option", name |-> "OPT_X_TLS_REQUIRE_CERT",
             value |-> require_cert]>>
     ELSE <<>>)
    \o <<[call |-> "ldap.set_option", name |-> "OPT_DEBUG_LEVEL",
          value |-> PyInt(IF Truthy(debug) THEN DebugLevelOn ELSE DebugLevelOff)]>>

RECURSIVE ApplyGlobal(_, _)
\* ldap.set_option: the process-wide options after the writes.
ApplyGlobal(opts, writes) ==
    IF writes = <<>> THEN opts
    ELSE ApplyGlobal([opts EXCEPT ![Head(writes).name] = Head(writes).value],
                     Tail(writes))

\* '%s://%s:%s' % (protocol, hostname, port)
format_url(protocol, hostname, port) ==
    <<protocol, "://", hostname, ":", port.v>>

\* password.encode('utf-8') of a unicode password; a str is passed as it is.
encode_password(password) ==
    IF password.type = "unicode"
    THEN [type |-> "str", v |-> password.v, encoding |-> "utf-8"]
    ELSE password

\* The orders in which options.iteritems() may enumerate the options.
OptionOrders(options) ==
    IF options.type = "dict" THEN IterOrders(options.v) ELSE {<<>>}

\* A plausible slip, the order the docstring describes: tls after the bind.
transport_calls_bind_first(conn, url, options, order, encryption, dn, password) ==
    <<[call |-> "ldap.initialize", conn |-> conn, url |-> url]>>
    \o (IF Truthy(options)
        THEN [i \in 1..Len(order) |->
                [call |-> "set_option", conn |-> conn, name |-> order[i],
                 value |-> options.v[order[i]]]]
        ELSE <<>>)
    \o <<[call |-> "simple_bind_s", conn |-> conn, dn |-> dn,
          password |-> encode_password(password)]>>
    \o (IF EqStr(encryption, "tls")
        THEN <<[call |-> "start_tls_s", conn |-> conn]>>
        ELSE <<>>)

\* The calls on the transport, in order, of a construction nothing stops.
transport_calls(conn, url, options, order, encryption, dn, password) ==
    <<[call |-> "ldap.initialize", conn |-> conn, url |-> url]>>
    \o (IF Truthy(options)
        THEN [i \in 1..Len(order) |->
                [call |-> "set_option", conn |-> conn, name |-> order[i],
                 value |-> options.v[order[i]]]]
        ELSE <<>>)
    \o (IF EqStr(encryption, "tls")
        THEN <<[call |-> "start_tls_s", conn |-> conn]>>
        ELSE <<>>)
    \o <<[call |-> "simple_bind_s", conn |-> conn, dn |-> dn,
          password |-> encode_password(password)]>>

\* A plausible slip: a failing call is swallowed and the sequence goes on.
executed_all(calls, fail) == calls

\* The calls made when call number `fail` raises (0: none does): the
\* exception leaves __init__ at once.
executed(calls, fail) ==
    IF fail = 0 THEN calls ELSE SubSeq(calls, 1, fail)

\* The LDAPObject after the calls: open once ldap.initialize has returned,
\* bound once simple_bind_s has.  `debug` keeps the flag its construction
\* was given (a history field: the object itself does not hold it).
handle_after(done, fail, debug) ==
    LET returned == IF fail = 0 THEN done ELSE SubSeq(done, 1, fail - 1) IN
    [phase |-> IF \E i \in DOMAIN returned : returned[i].call = "simple_bind_s"
               THEN "bound" ELSE "open",
     debug |-> Truthy(debug)]

-----------------------------------------------------------------------------
(* The inputs of Spec.                                                     *)

Hostnames == {"ldap.example.com"}
Encryptions == {PyNone, PyStr(""), PyStr("tls"), PyStr("ssl"), PyStr("TLS")}
Ports == {PyNone, PyInt(0), PyInt(1389)}
RequireCerts == {PyNone, PyBool(TRUE), PyBool(FALSE)}
Debugs == {PyBool(TRUE), PyBool(FALSE)}
OptionDicts == {PyNone, PyDict(<<>>), PyDict([OPT_TIMELIMIT |-> 3])}
Credentials ==
    {[dn |-> "", password |-> PyStr("")],
     [dn |-> "cn=admin", password |-> PyUnicode("secret")]}
\* The arguments InitSpec draws from.
AdminCredentials == {c \in Credentials : c.password.type = "unicode"}
CertChoices == {PyNone, PyBool(TRUE)}

\* The arguments of search and get; what is left out takes the default of
\* the signature: base_dn='', attrs=None, scope=ldap.SCOPE_SUBTREE,
\* timeout=-1, limit=0.
SearchArgs ==
    {[filter |-> "(objectClass=*)", base_dn |-> "", attrs |-> PyNone,
      scope |-> "SCOPE_SUBTREE", timeout |-> -1, limit |-> 0],
     [filter |-> "(cn=a*)", base_dn |-> "dc=example,dc=com",
      attrs |-> PyNone, scope |-> "SCOPE_ONELEVEL", timeout |-> 5, limit |-> 1]}

\* The raw (dn, attributes) tuples a server holds.
RawEntries ==
    {<<"cn=ab,dc=example,dc=com",
       [x \in {cn, mail} |-> IF x = cn THEN <<<<"a", "b">>>>
                             ELSE <<<<"a", "b">>, <<"b">>>>]>>,
     <<"cn=b,dc=example,dc=com", [x \in {CN} |-> <<<<"b">>>>]>>,
     <<"cn=c,dc=example,dc=com", [x \in {mail} |-> <<>>]>>}

\* What search_ext_s may return.
ResultLists == SeqsUpTo(RawEntries, MaxResults)

-----------------------------------------------------------------------------
(* Connection.search, get, close, __enter__ and __exit__.                  *)

\* self.connection.unbind_s()
close_calls(self) == <<[call |-> "unbind_s", conn |-> self]>>

\* self.connection.search_ext_s(base_dn, scope, filter, attrs,
\*                              timeout=timeout, sizelimit=limit)
search_calls(self, args) ==
    <<[call |-> "search_ext_s", conn |-> self,
       positional |-> <<args.base_dn, args.scope, args.filter, args.attrs>>,
       timeout |-> args.timeout, sizelimit |-> args.limit]>>

\* One enumeration order of the attributes for each raw tuple.
ItemOrders(results) ==
    {os \in [DOMAIN results -> UNION {IterOrders(results[i][2]) : i \in DOMAIN results}] :
        \A i \in DOMAIN results : os[i] \in IterOrders(results[i][2])}

\* A plausible slip: the first raw tuple is lost.
to_items_tail(results, orders) ==
    [i \in 1..(Len(results) - 1) |-> LDAPItem(results[i + 1], orders[i + 1])]

\* Connection.to_items: [self.result_item_class(item) for item in results]
to_items(results, orders) ==
    [i \in 1..Len(results) |-> LDAPItem(results[i], orders[i])]

\* What search returns from what search_ext_s answered: an exception of the
\* transport is not caught.
search_outcome(response, orders) ==
    IF response.kind = "raise" THEN response
    ELSE Return(to_items(response.value, orders))

\* A plausible slip: any non-empty result is taken for a single one.
get_outcome_first(searched) ==
    IF searched.kind = "raise" THEN searched
    ELSE IF Len(searched.value) >= 1 THEN Return(searched.value[1])
    ELSE Raise("ObjectNotFound")

\* What get makes of what self.search(...) gave.
get_outcome(searched) ==
    IF searched.kind = "raise" THEN searched
    ELSE LET num_results == Len(searched.value) IN
         IF num_results = 1 THEN Return(searched.value[1])
         ELSE IF num_results > 1 THEN Raise("MultipleObjectsFound")
         ELSE Raise("ObjectNotFound")

\* Connection.__enter__: return self
enter(self) == self

\* A plausible slip: __exit__ leaves the connection open.
exit_calls_none(self) == <<>>

\* Connection.__exit__: self.close()
exit_calls(self) == close_calls(self)

-----------------------------------------------------------------------------
(* The transport's answers.                                                *)

TransportError == Raise("LDAPError")

\* search_ext_s on a bound LDAPObject answers or fails; on any other it fails.
SearchResponses(h) ==
    IF h.phase = "bound"
    THEN {Return(rs) : rs \in ResultLists} \cup {TransportError}
    ELSE {TransportError}

\* unbind_s returns or fails.
UnbindResponses == {Return(PyNone), TransportError}

\* The LDAPObjects after the calls in `calls`, answered with `response`.
AfterUnbind(hs, calls, response) ==
    [i \in DOMAIN hs |->
        IF response.kind = "return"
           /\ \E j \in DOMAIN calls : calls[j].call = "unbind_s" /\ calls[j].conn = i
        THEN [hs[i] EXCEPT !.phase = "unbound"]
        ELSE hs[i]]

\* The with-statement after a call made in its body ended with `outcome`:
\* an exception is then in flight in the body.
ScopeAfter(outcome) ==
    IF scope.phase = "body" /\ outcome.kind = "raise"
    THEN [scope EXCEPT !.phase = "failing"]
    ELSE scope

\* No call is made while an exception is on its way out of the with body.
Running == scope.phase # "failing"

-----------------------------------------------------------------------------
(* The actions.                                                            *)

\* No LDAPObject, no Connection; python-ldap's options at their defaults.
Init ==
    /\ ldap_options = [OPT_DEBUG_LEVEL |-> PyInt(0),
                       OPT_X_TLS_REQUIRE_CERT |-> [type |-> "default"]]
    /\ handles = <<>>
    /\ sessions = {}
    /\ scope = NoScope
    /\ trace = <<>>
    /\ ret = NoCall
    /\ result = NoResult
    /\ item = NoItem

\* Connection(hostname, port, dn, password, encryption, require_cert, debug,
\* options): the whole of __init__.  The transport is the environment: it
\* lets every call return, or makes one of them raise.
Connection(hostname, port, cred, encryption, require_cert, debug, options) ==
    /\ Running
    /\ LET args == [hostname |-> hostname, port |-> port, dn |-> cred.dn,
                    password |-> cred.password, encryption |-> encryption,
                    require_cert |-> require_cert, debug |-> debug,
                    options |-> options]
           chosen == select_protocol(encryption, port)
       IN
       \/ /\ chosen.kind = "raise"
          /\ trace' = <<>>
          /\ ret' = [op |-> "Connection", args |-> args, raised_at |-> 0,
                     outcome |-> chosen]
          /\ scope' = ScopeAfter(chosen)
          /\ UNCHANGED <<ldap_options, handles, sessions, result, item>>
       \/ /\ chosen.kind = "return"
          /\ \E order \in OptionOrders(options) :
                LET conn == Len(handles) + 1
                    url == format_url(chosen.value.protocol, hostname,
                                      chosen.value.port)
                    writes == global_writes(require_cert, debug)
                    calls == transport_calls(conn, url, options, order,
                                             encryption, cred.dn, cred.password)
                IN
                \E fail \in 0..Len(calls) :
                    LET done == executed(calls, fail)
                        outcome == IF fail = 0 THEN Return(conn)
                                   ELSE TransportError
                    IN
                    /\ trace' = writes \o done
                    /\ ldap_options' = ApplyGlobal(ldap_options, writes)
                    /\ handles' = IF fail = 1 THEN handles
                                  ELSE Append(handles,
                                              handle_after(done, fail, debug))
                    /\ sessions' = IF outcome.kind = "return"
                                   THEN sessions \cup {conn} ELSE sessions
                    /\ ret' = [op |-> "Connection", args |-> args,
                               raised_at |-> fail, outcome |-> outcome]
                    /\ scope' = ScopeAfter(outcome)
                    /\ UNCHANGED <<result, item>>

\* Connection.search; `response` is the transport's answer.
search(self, args, response) ==
    /\ Running
    /\ self \in sessions
    /\ response \in SearchResponses(handles[self])
    /\ \E orders \in (IF response.kind = "return"
                      THEN ItemOrders(response.value) ELSE {<<>>}) :
          LET outcome == search_outcome(response, orders) IN
          /\ trace' = search_calls(self, args)
          /\ ret' = [op |-> "search", self |-> self, args |-> args,
                     response |-> response, outcome |-> outcome]
          /\ scope' = ScopeAfter(outcome)
          /\ UNCHANGED <<ldap_options, handles, sessions, result, item>>

\* Connection.get: self.search(...) and the check of the number of results.
get(self, args, response) ==
    /\ Running
    /\ self \in sessions
    /\ response \in SearchResponses(handles[self])
    /\ \E orders \in (IF response.kind = "return"
                      THEN ItemOrders(response.value) ELSE {<<>>}) :
          LET outcome == get_outcome(search_outcome(response, orders)) IN
          /\ trace' = search_calls(self, args)
          /\ ret' = [op |-> "get", self |-> self, args |-> args,
                     response |-> response, outcome |-> outcome]
          /\ scope' = ScopeAfter(outcome)
          /\ UNCHANGED <<ldap_options, handles, sessions, result, item>>

\* Connection.close; `response` is the transport's answer.
close(self, response) ==
    /\ Running
    /\ self \in sessions
    /\ response \in UnbindResponses
    /\ trace' = close_calls(self)
    /\ handles' = AfterUnbind(handles, close_calls(self), response)
    /\ ret' = [op |-> "close", self |-> self, outcome |-> response]
    /\ scope' = ScopeAfter(response)
    /\ UNCHANGED <<ldap_options, sessions, result, item>>

\* `with self as x:` is entered: x = self.__enter__().
EnterScope(self) ==
    /\ scope.phase = "none"
    /\ self \in sessions
    /\ scope' = [phase |-> "body", self |-> self, as |-> enter(self)]
    /\ trace' = <<>>
    /\ ret' = [op |-> "__enter__", self |-> self,
               outcome |-> Return(enter(self))]
    /\ UNCHANGED <<ldap_options, handles, sessions, result, item>>

\* The body of the with-statement raises an exception of its own.
BodyRaises ==
    /\ scope.phase = "body"
    /\ scope' = [scope EXCEPT !.phase = "failing"]
    /\ trace' = <<>>
    /\ ret' = [op |-> "body", outcome |-> Raise("Exception")]
    /\ UNCHANGED <<ldap_options, handles, sessions, result, item>>

\* The body catches the exception in flight and goes on.
BodyCatches ==
    /\ scope.phase = "failing"
    /\ scope' = [scope EXCEPT !.phase = "body"]
    /\ trace' = <<>>
    /\ ret' = [op |-> "body", outcome |-> Return(PyNone)]
    /\ UNCHANGED <<ldap_options, handles, sessions, result, item>>

\* The with-statement is left, its body done or an exception on its way
\* out: self.__exit__(exc_type, exc_value, traceback).
ExitScope(response) ==
    /\ scope.phase \in {"body", "failing"}
    /\ response \in UnbindResponses
    /\ LET calls == exit_calls(scope.self) IN
       /\ trace' = calls
       /\ handles' = AfterUnbind(handles, calls, response)
       /\ ret' = [op |-> "__exit__", self |-> scope.self,
                  body_failed |-> scope.phase = "failing",
                  outcome |-> IF calls # <<>> THEN response
                              ELSE Return(PyNone)]
    /\ scope' = NoScope
    /\ UNCHANGED <<ldap_options, sessions, result, item>>

-----------------------------------------------------------------------------
(* InitSpec: constructions, over every kind of argument.                   *)

InitNext ==
    \E hostname \in Hostnames, port \in Ports, cred \in AdminCredentials,
       encryption \in Encryptions, require_cert \in CertChoices,
       debug \in Debugs, options \in OptionDicts :
       /\ Len(handles) < MaxSessions
       /\ Connection(hostname, port, cred, encryption, require_cert, debug,
                     options)

InitSpec == Init /\ [][InitNext]_vars

-----------------------------------------------------------------------------
(* Spec: several connections of one process, constructed, used and closed. *)

\* The encryption modes, options and answers Spec draws from.
SomeEncryptions == {PyNone, PyStr("tls"), PyStr("TLS")}
SomeOptionDicts == {PyNone, PyDict([OPT_TIMELIMIT |-> 3])}
SomeCredentials == {[dn |-> "", password |-> PyStr("")]}
SomeSearchArgs ==
    {[filter |-> "(objectClass=*)", base_dn |-> "", attrs |-> PyNone,
      scope |-> "SCOPE_SUBTREE", timeout |-> -1, limit |-> 0]}
SomeResponses ==
    {Return(<<>>), TransportError}
    \cup {Return(<<e>>) : e \in {r \in RawEntries : DOMAIN r[2] = {CN}}}

Next ==
    \/ \E hostname \in Hostnames, cred \in SomeCredentials,
          encryption \in SomeEncryptions, require_cert \in RequireCerts,
          debug \in Debugs, options \in SomeOptionDicts :
          /\ Len(handles) < MaxConnections
          /\ Connection(hostname, PyNone, cred, encryption, require_cert,
                        debug, options)
    \/ \E self \in sessions, args \in SomeSearchArgs, response \in SomeResponses :
          search(self, args, response)
    \/ \E self \in sessions, args \in SomeSearchArgs, response \in SomeResponses :
          get(self, args, response)
    \/ \E self \in sessions, response \in UnbindResponses : close(self, response)

Spec == Init /\ [][Next]_vars

-----------------------------------------------------------------------------
(* ScopeSpec: a connection used in and out of a with-statement, the        *)
(* transport answering a search with anything it may.                      *)

PlainCredentials == [dn |-> "", password |-> PyStr("")]

AllResponses == {Return(rs) : rs \in ResultLists} \cup {TransportError}

ScopeNext ==
    \/ /\ Len(handles) < MaxSessions
       /\ \E hostname \in Hostnames :
             Connection(hostname, PyNone, PlainCredentials, PyNone, PyNone,
                        PyBool(FALSE), PyNone)
    \/ \E self \in sessions, args \in SearchArgs, response \in AllResponses :
          search(self, args, response)
    \/ \E self \in sessions, args \in SearchArgs, response \in AllResponses :
          get(self, args, response)
    \/ \E self \in sessions, response \in UnbindResponses : close(self, response)
    \/ \E self \in sessions : EnterScope(self)
    \/ BodyRaises
    \/ BodyCatches
    \/ \E response \in UnbindResponses : ExitScope(response)

ScopeSpec == Init /\ [][ScopeNext]_vars

-----------------------------------------------------------------------------
(* ItemSpec: LDAPItem.                                                     *)

ItemDNs == {"cn=ab,dc=example,dc=com"}

\* A raw tuple as search_ext_s returns it; no item yet.
ItemInit ==
    /\ ldap_options = [OPT_DEBUG_LEVEL |-> PyInt(0),
                       OPT_X_TLS_REQUIRE_CERT |-> [type |-> "default"]]
    /\ handles = <<>>
    /\ sessions = {}
    /\ scope = NoScope
    /\ trace = <<>>
    /\ ret = NoCall
    /\ result \in ItemDNs \X AttributeDicts
    /\ item = NoItem

\* LDAPItem(result)
NewItem(order) ==
    /\ ~Built(item)
    /\ item' = LDAPItem(result, order)
    /\ ret' = [op |-> "LDAPItem"]
    /\ UNCHANGED <<ldap_options, handles, sessions, scope, trace, result>>

\* item.first(attribute)
First(attribute) ==
    /\ Built(item)
    /\ ret' = [op |-> "first", attribute |-> attribute,
               outcome |-> first(item, attribute)]
    /\ UNCHANGED <<ldap_options, handles, sessions, scope, trace, result, item>>

\* item.value_contains(value, attribute)
ValueContains(value, attribute) ==
    /\ Built(item)
    /\ ret' = [op |-> "value_contains", value |-> value,
               attribute |-> attribute,
               outcome |-> value_contains(item, value, attribute)]
    /\ UNCHANGED <<ldap_options, handles, sessions, scope, trace, result, item>>

ItemNext ==
    \/ \E order \in IterOrders(result[2]) : NewItem(order)
    \/ \E attribute \in LookupNames : First(attribute)
    \/ \E value \in Needles, attribute \in LookupNames :
          ValueContains(value, attribute)

ItemSpec == ItemInit /\ [][ItemNext]_vars

-----------------------------------------------------------------------------
(* The properties.                                                         *)

\* The calls of a trace made on the transport (not ldap.set_option).
TransportPart(t) == SelectSeq(t, LAMBDA e : e.call # "ldap.set_option")

\* The positions of a trace at which `call` is made.
Positions(t, call) == {i \in DOMAIN t : t[i].call = call}

\* C1: get on a search that answered: one result is returned as that item,
\* not as a list; no result raises ObjectNotFound; two or more raise
\* MultipleObjectsFound.
C1_GetCardinality ==
    (ret.op = "get" /\ ret.response.kind = "return") =>
        LET results == ret.response.value
            n == Len(results)
        IN
        /\ n = 1 => /\ ret.outcome.kind = "return"
                    /\ ret.outcome.value.dn = results[1][1]
                    /\ ret.outcome.value.attributes = results[1][2]
        /\ n = 0 => ret.outcome = Raise("ObjectNotFound")
        /\ n >= 2 => ret.outcome = Raise("MultipleObjectsFound")

C1_Witness ==
    /\ ret.op = "get"
    /\ ret.response.kind = "return"
    /\ Len(ret.response.value) = 2
    /\ ret.outcome = Raise("MultipleObjectsFound")

\* C8: search makes exactly one search_ext_s call on its own transport; it
\* returns one item for each raw tuple, in the order of the tuples, item i
\* holding the dn and the attributes of tuple i (none for no tuple); an
\* exception of the transport is the outcome of search.
C8_SearchWraps ==
    ret.op = "search" =>
        /\ Len(trace) = 1
        /\ trace[1].call = "search_ext_s"
        /\ trace[1].conn = ret.self
        /\ ret.response.kind = "raise" => ret.outcome = ret.response
        /\ ret.response.kind = "return" =>
              /\ ret.outcome.kind = "return"
              /\ Len(ret.outcome.value) = Len(ret.response.value)
              /\ \A i \in DOMAIN ret.response.value :
                    /\ ret.outcome.value[i].dn = ret.response.value[i][1]
                    /\ ret.outcome.value[i].attributes = ret.response.value[i][2]

C8_Witness ==
    /\ ret.op = "search"
    /\ ret.response.kind = "return"
    /\ Len(ret.response.value) = 2
    /\ ret.response.value[1][1] # ret.response.value[2][1]
    /\ ret.outcome.kind = "return"
    /\ ret.outcome.value[2].dn = ret.response.value[2][1]

\* C5: entering the with-statement gives the session itself, bound since
\* its construction, and calls nothing on the transport; leaving it calls
\* unbind_s on the session's transport exactly once, whether the body ended
\* or raised, whatever was searched, got or closed in the body.
C5_ScopedClose ==
    /\ ret.op = "__enter__" =>
          /\ ret.outcome = Return(ret.self)
          /\ scope.as = ret.self
          /\ trace = <<>>
          /\ handles[ret.self].phase # "open"
    /\ ret.op = "__exit__" =>
          /\ Len(trace) = 1
          /\ trace[1].call = "unbind_s"
          /\ trace[1].conn = ret.self

C5_Witness ==
    /\ ret.op = "__exit__"
    /\ ret.body_failed
    /\ Len(trace) = 1
    /\ handles[ret.self].phase = "unbound"

\* C9: a construction one of whose transport calls raises makes no call
\* after it and fails, and its LDAPObject is no session of the caller; so
\* every session, and every session searched, got from or closed, is one
\* whose bind returned.
C9_ConstructionAtomic ==
    /\ \A s \in sessions : s \in DOMAIN handles /\ handles[s].phase # "open"
    /\ ret.op \in {"search", "get", "close"} =>
          /\ ret.self \in sessions
          /\ handles[ret.self].phase \in {"bound", "unbound"}
    /\ (ret.op = "Connection" /\ ret.raised_at > 0) =>
          LET made == TransportPart(trace) IN
          /\ ret.outcome.kind = "raise"
          /\ Len(made) = ret.raised_at
          /\ \A i \in DOMAIN made :
                made[i].call = "simple_bind_s" => i = Len(made)
          /\ \A i \in DOMAIN made : made[i].conn \notin sessions
          /\ \A i \in DOMAIN made :
                made[i].conn \in DOMAIN handles =>
                    handles[made[i].conn].phase = "open"
    /\ (ret.op = "Connection" /\ ret.outcome.kind = "return") =>
          /\ ret.outcome.value \in sessions
          /\ handles[ret.outcome.value].phase = "bound"

C9_Witness ==
    /\ ret.op = "Connection"
    /\ ret.outcome = TransportError
    /\ trace # <<>>
    /\ trace[Len(trace)].call = "start_tls_s"
    /\ sessions # {}
    /\ Len(handles) \notin sessions

\* C10: a construction that passes the check of the encryption mode writes
\* the debug level, 255 for debug and 0 otherwise, before it opens the
\* transport and however it ends; it writes the certificate option exactly
\* when require_cert is not None; no other call writes a process-wide
\* option.  So the debug level is always that of the last such construction.
C10_GlobalOptions ==
    [][ /\ (ret'.op = "Connection"
            /\ ret'.outcome # Raise("InvalidEncryptionProtocol")) =>
               /\ ldap_options'.OPT_DEBUG_LEVEL =
                     PyInt(IF ret'.args.debug.v THEN DebugLevelOn
                           ELSE DebugLevelOff)
               /\ \E i \in DOMAIN trace' :
                     /\ trace'[i].call = "ldap.set_option"
                     /\ trace'[i].name = "OPT_DEBUG_LEVEL"
                     /\ trace'[i].value = ldap_options'.OPT_DEBUG_LEVEL
                     /\ \A j \in Positions(trace', "ldap.initialize") : i < j
               /\ ldap_options'.OPT_X_TLS_REQUIRE_CERT =
                     IF ret'.args.require_cert = PyNone
                     THEN ldap_options.OPT_X_TLS_REQUIRE_CERT
                     ELSE ret'.args.require_cert
        /\ (ret'.op # "Connection"
            \/ ret'.outcome = Raise("InvalidEncryptionProtocol")) =>
               ldap_options' = ldap_options
      ]_vars

C10_Witness ==
    /\ ret.op = "Connection"
    /\ ret.outcome = Return(2)
    /\ ~ret.args.debug.v
    /\ ret.args.require_cert = PyNone
    /\ sessions = {1, 2}
    /\ handles[1].phase = "bound"
    /\ handles[1].debug
    /\ ldap_options.OPT_DEBUG_LEVEL = PyInt(DebugLevelOff)
    /\ ldap_options.OPT_X_TLS_REQUIRE_CERT = PyBool(FALSE)

\* The url of the ldap.initialize call of a trace.
UrlOf(t) == t[CHOOSE i \in Positions(t, "ldap.initialize") : TRUE].url

\* C2, as claimed: every encryption mode other than None, 'tls' and 'ssl'
\* is refused with InvalidEncryptionProtocol before any call is made.
C2_AsClaimed ==
    (ret.op = "Connection"
     /\ ret.args.encryption \notin {PyNone, PyStr("tls"), PyStr("ssl")}) =>
        /\ ret.outcome = Raise("InvalidEncryptionProtocol")
        /\ trace = <<>>

\* C2, amended: an encryption mode that is true and is neither 'tls' nor
\* 'ssl' is refused with InvalidEncryptionProtocol, and the refused
\* construction makes no call: python-ldap's options, the LDAPObjects and
\* the sessions are as before.  (A false mode, such as '', is taken as None.)
C2_InvalidEncryption ==
    [][ (ret'.op = "Connection"
         /\ Truthy(ret'.args.encryption)
         /\ ~EqStr(ret'.args.encryption, "tls")
         /\ ~EqStr(ret'.args.encryption, "ssl")) =>
            /\ ret'.outcome = Raise("InvalidEncryptionProtocol")
            /\ trace' = <<>>
            /\ UNCHANGED <<ldap_options, handles, sessions>>
      ]_vars

C2_Witness ==
    /\ ret.op = "Connection"
    /\ ret.args.encryption = PyStr("TLS")
    /\ ret.args.debug.v
    /\ ret.args.require_cert # PyNone
    /\ ret.outcome = Raise("InvalidEncryptionProtocol")
    /\ trace = <<>>
    /\ handles = <<>>
    /\ ldap_options.OPT_DEBUG_LEVEL = PyInt(DebugLevelOff)
    /\ ldap_options.OPT_X_TLS_REQUIRE_CERT = [type |-> "default"]

\* C3, as claimed: without a port, modes None and 'tls' open ldap on 389
\* and mode 'ssl' opens ldaps on 636; a port that is given is the port of
\* the url in every mode.
C3_AsClaimed ==
    (ret.op = "Connection"
     /\ ret.args.encryption \in {PyNone, PyStr("tls"), PyStr("ssl")}) =>
        LET url == UrlOf(trace)
            ssl == ret.args.encryption = PyStr("ssl")
        IN
        /\ url[1] = IF ssl THEN "ldaps" ELSE "ldap"
        /\ url[5] = IF ret.args.port # PyNone THEN ret.args.port.v
                    ELSE IF ssl THEN DefaultSSLPort ELSE DefaultPort

\* C3, amended: without a port, or with a port that is false (such as 0),
\* modes None and 'tls' open ldap on 389 and mode 'ssl' opens ldaps on 636;
\* a port that is given and true is the port of the url in every mode.
C3_PortAndScheme ==
    (ret.op = "Connection"
     /\ ret.outcome # Raise("InvalidEncryptionProtocol")) =>
        LET url == UrlOf(trace)
            ssl == ret.args.encryption = PyStr("ssl")
            given == Truthy(ret.args.port)
        IN
        /\ Cardinality(Positions(trace, "ldap.initialize")) = 1
        /\ url[1] = IF ssl THEN "ldaps" ELSE "ldap"
        /\ url[3] = ret.args.hostname
        /\ url[5] = IF given THEN ret.args.port.v
                    ELSE IF ssl THEN DefaultSSLPort ELSE DefaultPort

C3_Witness ==
    /\ ret.op = "Connection"
    /\ ret.args.encryption = PyStr("ssl")
    /\ ret.args.port = PyNone
    /\ ret.outcome.kind = "return"
    /\ UrlOf(trace) = <<"ldaps", "://", ret.args.hostname, ":", DefaultSSLPort>>

Matches(attribute) ==
    {k \in DOMAIN result[2] : lower(k) = lower(attribute)}

\* The value list the item holds for `attribute`, looked up whatever the case.
Stored(attribute) == item.data[lower(attribute)]

\* C6, as claimed: value_contains is true exactly when one of the values of
\* the attribute contains the value, and false when the item has no such
\* attribute.
C6_AsClaimed ==
    ret.op = "value_contains" =>
        ret.outcome =
            Return(/\ Matches(ret.attribute) # {}
                   /\ \E i \in DOMAIN Stored(ret.attribute) :
                         StrIn(ret.value, Stored(ret.attribute)[i]))

\* C6, amended: for an attribute the item has, value_contains is true
\* exactly when one of its values contains the value; for an attribute the
\* item does not have it raises KeyError.
C6_ValueContains ==
    ret.op = "value_contains" =>
        IF Matches(ret.attribute) = {}
        THEN ret.outcome = Raise("KeyError")
        ELSE ret.outcome =
                Return(\E i \in DOMAIN Stored(ret.attribute) :
                          \E start \in 0..Len(Stored(ret.attribute)[i]) :
                             /\ start + Len(ret.value) <= Len(Stored(ret.attribute)[i])
                             /\ \A j \in 1..Len(ret.value) :
                                   Stored(ret.attribute)[i][start + j] = ret.value[j])

C6_Witness ==
    /\ ret.op = "value_contains"
    /\ Matches(ret.attribute) = {}
    /\ DOMAIN result[2] # {}
    /\ ret.outcome = Raise("KeyError")

\* What first makes of a value list.
HeadOf(values) ==
    IF values = <<>> THEN Raise("IndexError") ELSE Return(Head(values))

\* C7, as claimed: for every name k of the raw tuple and every spelling of
\* k, first gives the head of the values of k when there is one; first
\* fails when no name matches or the values are empty.
C7_AsClaimed ==
    ret.op = "first" =>
        /\ \A k \in Matches(ret.attribute) :
              result[2][k] # <<>> => ret.outcome = Return(Head(result[2][k]))
        /\ (\A k \in Matches(ret.attribute) : result[2][k] = <<>>) =>
              ret.outcome.kind = "raise"

\* C7, amended: for every name k of the raw tuple from which no other name
\* of the tuple differs only in letter case, and every spelling of k, first
\* gives the head of the values of k, and raises IndexError when they are
\* empty; when several names differ only in case it does so for one of
\* them; it raises KeyError when no name matches.
C7_FirstIgnoresCase ==
    ret.op = "first" =>
        LET matches == Matches(ret.attribute) IN
        /\ matches = {} => ret.outcome = Raise("KeyError")
        /\ \A k \in matches :
              matches = {k} => ret.outcome = HeadOf(result[2][k])
        /\ matches # {} =>
              \E k \in matches : ret.outcome = HeadOf(result[2][k])

C7_Witness ==
    /\ ret.op = "first"
    /\ ret.attribute = Cn
    /\ Matches(Cn) = {cn}
    /\ Len(result[2][cn]) = 2
    /\ result[2][cn][1] # result[2][cn][2]
    /\ ret.outcome = Return(result[2][cn][1])

====
